---------------------------- MODULE Spec2Model ----------------------------
(***************************************************************************)
(* Model of app.py, the Streamlit inventory-count form.                    *)
(*                                                                         *)
(* Every user interaction makes Streamlit run the script from its first    *)
(* line to its last (or to st.rerun() / an uncaught exception).  One       *)
(* action of this model is one such run.  What survives between runs is    *)
(* st.session_state of the browser session and the spreadsheet files on    *)
(* disk; the data frame df is rebuilt in every run.                        *)
(*                                                                         *)
(* Text is a sequence of one-character strings, so that strip() and        *)
(* replace(".0", "") are computed character by character.  A spreadsheet   *)
(* or data-frame cell is a record [t, s, n]: text (t = "str", s), an       *)
(* integer (t = "int", n) or a missing value NaN/None (t = "nan").         *)
(***************************************************************************)
EXTENDS Integers, Sequences, FiniteSets, TLC

(***************************************************************************)
(* Bounds of the model.                                                    *)
(***************************************************************************)
\* largest quantity typed into the Quantity input
MaxQty == 1
\* largest number of rows of a ledger that the grid may still add a row to
MaxRows == 2
\* number of session ids uuid4 hands out before Start New Count is cut off
MaxIds == 3

(***************************************************************************)
(* Cells                                                                   *)
(***************************************************************************)
\* a Python str
Text(s) == [t |-> "str", s |-> s, n |-> 0]
\* a Python int
Num(k) == [t |-> "int", s |-> <<>>, n |-> k]
\* the missing value of a data frame (float nan)
NaN == [t |-> "nan", s |-> <<>>, n |-> 0]
\* Python's None
None == [t |-> "none", s |-> <<>>, n |-> 0]
\* a spreadsheet cell that holds no value
EmptyCell == [t |-> "empty", s |-> <<>>, n |-> 0]

(***************************************************************************)
(* Text                                                                    *)
(***************************************************************************)
\* code points of the characters used
Ord(c) ==
  CASE c = " " -> 32
    [] c = "." -> 46
    [] c = "0" -> 48
    [] c = "1" -> 49
    [] c = "2" -> 50
    [] c = "3" -> 51
    [] c = "4" -> 52
    [] c = "5" -> 53
    [] c = "6" -> 54
    [] c = "7" -> 55
    [] c = "8" -> 56
    [] c = "9" -> 57
    [] c = "S" -> 83
    [] OTHER -> 90

RECURSIVE LStrip(_)
LStrip(s) == IF s # <<>> /\ Head(s) = " " THEN LStrip(Tail(s)) ELSE s

RECURSIVE RStrip(_)
RStrip(s) ==
  IF s # <<>> /\ s[Len(s)] = " " THEN RStrip(SubSeq(s, 1, Len(s) - 1)) ELSE s

\* str.strip()
Strip(s) == RStrip(LStrip(s))

\* str.replace(".0", ""): the occurrences are found left to right and do
\* not overlap; the result is not scanned again
RECURSIVE ReplaceDotZero(_)
ReplaceDotZero(s) ==
  IF Len(s) < 2 THEN s
  ELSE IF s[1] = "." /\ s[2] = "0" THEN ReplaceDotZero(SubSeq(s, 3, Len(s)))
  ELSE <<s[1]>> \o ReplaceDotZero(Tail(s))

\* lexicographic order of str by code point (Python's <)
RECURSIVE StrLess(_, _)
StrLess(a, b) ==
  IF b = <<>> THEN FALSE
  ELSE IF a = <<>> THEN TRUE
  ELSE IF Ord(Head(a)) # Ord(Head(b)) THEN Ord(Head(a)) < Ord(Head(b))
  ELSE StrLess(Tail(a), Tail(b))

Digit(k) == <<"0", "1", "2", "3", "4", "5", "6", "7", "8", "9">>[k + 1]

\* str(k) of a non-negative integer
RECURSIVE ToDecimal(_)
ToDecimal(k) ==
  IF k < 10 THEN <<Digit(k)>> ELSE ToDecimal(k \div 10) \o <<Digit(k % 10)>>

(***************************************************************************)
(* Spreadsheet files: pandas to_excel and read_excel(dtype = str)          *)
(***************************************************************************)
\* what to_excel stores for one value: a number as a numeric cell, text as
\* a text cell, and nothing for NaN, None and the empty string
WriteCell(c) ==
  IF c.t = "int" THEN c
  ELSE IF c.t = "str" /\ c.s # <<>> THEN c
  ELSE EmptyCell

\* what read_excel(dtype = str) returns for one cell: every stored value
\* as text, an empty cell as NaN
ReadCell(c) ==
  IF c.t = "int" THEN Text(ToDecimal(c.n))
  ELSE IF c.t = "str" THEN c
  ELSE NaN

WriteRow(r) ==
  [SKU |-> WriteCell(r.SKU), Name |-> WriteCell(r.Name),
   Size |-> WriteCell(r.Size), CountedQty |-> WriteCell(r.CountedQty)]

ReadRow(r) ==
  [SKU |-> ReadCell(r.SKU), Name |-> ReadCell(r.Name),
   Size |-> ReadCell(r.Size), CountedQty |-> ReadCell(r.CountedQty)]

EmptyRow(r) ==
  /\ r.SKU = EmptyCell
  /\ r.Name = EmptyCell
  /\ r.Size = EmptyCell
  /\ r.CountedQty = EmptyCell

\* the reader drops the rows after the last row that holds a value
RECURSIVE TrimTrailingEmpty(_)
TrimTrailingEmpty(rows) ==
  IF rows # <<>> /\ EmptyRow(rows[Len(rows)])
  THEN TrimTrailingEmpty(SubSeq(rows, 1, Len(rows) - 1))
  ELSE rows

\* the sheet df.to_excel(..., index=False) writes
to_excel(df) == [i \in 1..Len(df) |-> WriteRow(df[i])]

\* the data frame pd.read_excel(..., dtype = str) builds from a sheet
read_excel(sheet) ==
  LET rows == TrimTrailingEmpty(sheet)
  IN  [i \in 1..Len(rows) |-> ReadRow(rows[i])]

\* pd.DataFrame(columns=["SKU", "Name", "Size", "Counted Qty"])
EmptyFrame == <<>>

\* a path at which no file exists
NoFile == [exists |-> FALSE, sheet |-> <<>>]

FileOf(sheet) == [exists |-> TRUE, sheet |-> sheet]

(***************************************************************************)
(* The lookup table                                                        *)
(***************************************************************************)
\* Series.astype(str) of one cell
AsTypeStr(c) == IF c.t = "str" THEN c.s ELSE <<"n", "a", "n">>

\* load_lookup: UPC is stripped and loses every ".0"; SKU is only stripped
LoadLookupRow(r) ==
  [UPC |-> ReplaceDotZero(Strip(AsTypeStr(r.UPC))),
   SKU |-> Strip(AsTypeStr(r.SKU)),
   BRAND_NAME |-> r.BRAND_NAME,
   SIZE |-> r.SIZE]

\* load_lookup(): the table indexed by UPC.  book is the workbook
\* "Barcode Lookup.xlsx": [has_size, rows]
load_lookup(book) ==
  [has_size |-> book.has_size,
   rows |-> [i \in 1..Len(book.rows) |-> LoadLookupRow(book.rows[i])]]

\* entry in lookup_df.index
InUPCIndex(lk, entry) == \E i \in 1..Len(lk.rows) : lk.rows[i].UPC = entry

\* entry in lookup_by_sku.index
InSKUIndex(lk, entry) == \E i \in 1..Len(lk.rows) : lk.rows[i].SKU = entry

\* the row lookup_df.at[entry, ...] reads (the index is unique)
AtUPC(lk, entry) ==
  lk.rows[CHOOSE i \in 1..Len(lk.rows) : lk.rows[i].UPC = entry]

\* the row lookup_by_sku.at[entry, ...] reads (the index is unique)
AtSKU(lk, entry) ==
  lk.rows[CHOOSE i \in 1..Len(lk.rows) : lk.rows[i].SKU = entry]

\* ... .at[entry, "SIZE"] if "SIZE" in ....columns else ""
SizeOf(lk, row) == IF lk.has_size THEN row.SIZE ELSE Text(<<>>)

\* entry.strip().replace(".0", "")
NormalizeEntry(entry) == ReplaceDotZero(Strip(entry))

\* ResolveEntry without its else branch: an entry that is in neither
\* index is taken for a SKU
ResolveEntryNoElse(lk, entry) ==
  IF InUPCIndex(lk, entry)
  THEN [sku |-> Text(AtUPC(lk, entry).SKU),
        name |-> AtUPC(lk, entry).BRAND_NAME,
        size |-> SizeOf(lk, AtUPC(lk, entry)),
        not_found |-> FALSE]
  ELSE [sku |-> Text(entry),
        name |-> IF InSKUIndex(lk, entry) THEN AtSKU(lk, entry).BRAND_NAME
                                           ELSE None,
        size |-> IF InSKUIndex(lk, entry) THEN SizeOf(lk, AtSKU(lk, entry))
                                           ELSE Text(<<>>),
        not_found |-> FALSE]

\* ResolveEntry with a barcode branch that keeps the typed entry as the
\* SKU instead of reading the SKU of the lookup row
ResolveEntryKeepsEntry(lk, entry) ==
  IF InUPCIndex(lk, entry)
  THEN [sku |-> Text(entry),
        name |-> AtUPC(lk, entry).BRAND_NAME,
        size |-> SizeOf(lk, AtUPC(lk, entry)),
        not_found |-> FALSE]
  ELSE IF InSKUIndex(lk, entry)
  THEN [sku |-> Text(entry),
        name |-> AtSKU(lk, entry).BRAND_NAME,
        size |-> SizeOf(lk, AtSKU(lk, entry)),
        not_found |-> FALSE]
  ELSE [sku |-> None, name |-> None, size |-> Text(<<>>), not_found |-> TRUE]

\* ResolveEntry with the two indexes asked in the other order: the SKU
\* index first, then the barcode index
ResolveEntrySKUFirst(lk, entry) ==
  IF InSKUIndex(lk, entry)
  THEN [sku |-> Text(entry),
        name |-> AtSKU(lk, entry).BRAND_NAME,
        size |-> SizeOf(lk, AtSKU(lk, entry)),
        not_found |-> FALSE]
  ELSE IF InUPCIndex(lk, entry)
  THEN [sku |-> Text(AtUPC(lk, entry).SKU),
        name |-> AtUPC(lk, entry).BRAND_NAME,
        size |-> SizeOf(lk, AtUPC(lk, entry)),
        not_found |-> FALSE]
  ELSE [sku |-> None, name |-> None, size |-> Text(<<>>), not_found |-> TRUE]

\* the if / elif / else that resolves the normalized entry: the barcode
\* index first, then the SKU index; not_found is the st.error branch
ResolveEntry(lk, entry) ==
  IF InUPCIndex(lk, entry)
  THEN [sku |-> Text(AtUPC(lk, entry).SKU),
        name |-> AtUPC(lk, entry).BRAND_NAME,
        size |-> SizeOf(lk, AtUPC(lk, entry)),
        not_found |-> FALSE]
  ELSE IF InSKUIndex(lk, entry)
  THEN [sku |-> Text(entry),
        name |-> AtSKU(lk, entry).BRAND_NAME,
        size |-> SizeOf(lk, AtSKU(lk, entry)),
        not_found |-> FALSE]
  ELSE [sku |-> None, name |-> None, size |-> Text(<<>>), not_found |-> TRUE]

\* if sku:
Truthy(c) == c.t = "str" /\ c.s # <<>>

(***************************************************************************)
(* The count ledger                                                        *)
(***************************************************************************)
\* sku in df["SKU"].values
HasSKU(df, sku) == \E i \in 1..Len(df) : df[i].SKU = sku

\* df[df["SKU"] == sku].index[0]
FirstIndex(df, sku) ==
  CHOOSE i \in 1..Len(df) :
    /\ df[i].SKU = sku
    /\ \A j \in 1..(i - 1) : df[j].SKU # sku

\* whether cell + qty raises TypeError: text + int does
AddRaises(cell) == cell.t = "str"

\* cell + qty where it does not raise: int + int, and nan + int = nan
AddQty(cell, qty) == IF cell.t = "int" THEN Num(cell.n + qty) ELSE NaN

\* AddToCount without the test for a row of the SKU: a row is appended
\* every time
AddToCountAlwaysAppends(df, sku, name, size, qty) ==
  [raised |-> FALSE,
   df |-> Append(df, [SKU |-> sku, Name |-> name, Size |-> size,
                      CountedQty |-> Num(qty)])]

\* the body of "if sku:" up to the data frame it leaves: += on the first
\* row of the SKU, or a new row appended.  raised: the += raised and the
\* run ends there with df as it was
AddToCount(df, sku, name, size, qty) ==
  IF HasSKU(df, sku)
  THEN IF AddRaises(df[FirstIndex(df, sku)].CountedQty)
       THEN [raised |-> TRUE, df |-> df]
       ELSE [raised |-> FALSE,
             df |-> [df EXCEPT ![FirstIndex(df, sku)].CountedQty =
                                  AddQty(@, qty)]]
  ELSE [raised |-> FALSE,
        df |-> Append(df, [SKU |-> sku, Name |-> name, Size |-> size,
                           CountedQty |-> Num(qty)])]

\* the order sort_values("SKU") puts two SKU cells in: text by code point,
\* missing values last
SKUBefore(a, b) ==
  IF a.t = "str" /\ b.t = "str" THEN StrLess(a.s, b.s)
  ELSE a.t = "str" /\ b.t # "str"

\* row r put into the sorted rows after every row that is not behind it
RECURSIVE InsertSorted(_, _)
InsertSorted(rows, r) ==
  IF rows = <<>> THEN <<r>>
  ELSE IF SKUBefore(r.SKU, Head(rows).SKU) THEN <<r>> \o rows
  ELSE <<Head(rows)>> \o InsertSorted(Tail(rows), r)

\* df[[...]].sort_values("SKU").reset_index(drop=True)
RECURSIVE SortBySKU(_)
SortBySKU(df) ==
  IF df = <<>> THEN <<>>
  ELSE InsertSorted(SortBySKU(SubSeq(df, 1, Len(df) - 1)), df[Len(df)])

(***************************************************************************)
(* The data editor of the Scanned Items tab                                *)
(***************************************************************************)
\* the edits a user makes in the grid (num_rows="dynamic"): none, a row
\* removed, a row added with its SKU typed
NoEdit == [op |-> "none", row |-> 0, sku |-> <<>>]

GridEdits(base, skus) ==
  {NoEdit}
    \cup {[op |-> "delete", row |-> i, sku |-> <<>>] : i \in 1..Len(base)}
    \cup {[op |-> "add", row |-> 0, sku |-> s] :
             s \in IF Len(base) < MaxRows THEN skus ELSE {}}

RemoveAt(rows, i) == SubSeq(rows, 1, i - 1) \o SubSeq(rows, i + 1, Len(rows))

\* what st.data_editor returns: the frame it was given with the edit
\* applied; the cells of an added row that were not typed are missing
data_editor(base, edit) ==
  CASE edit.op = "delete" -> RemoveAt(base, edit.row)
    [] edit.op = "add" ->
         Append(base, [SKU |-> Text(edit.sku), Name |-> NaN, Size |-> NaN,
                       CountedQty |-> NaN])
    [] OTHER -> base

\* "Update original df if guest made changes": updated_df, if it is not
\* the sorted frame, replaces df and is written to the file
WriteBack(frame, file, sorted, updated_df) ==
  IF updated_df # sorted
  THEN [df |-> updated_df, file |-> FileOf(to_excel(updated_df)),
        editor |-> TRUE]
  ELSE [df |-> frame, file |-> file, editor |-> TRUE]

\* the Scanned Items tab: the frame and the file it leaves.  The editor is
\* shown for a non-empty frame; a result that differs from the sorted
\* frame replaces df and is written to the file
ScannedItemsTab(frame, file, edit) ==
  IF frame = EmptyFrame
  THEN [df |-> frame, file |-> file, editor |-> FALSE]
  ELSE WriteBack(frame, file, SortBySKU(frame),
                 data_editor(SortBySKU(frame), edit))

(***************************************************************************)
(* st.session_state                                                        *)
(***************************************************************************)
\* a session state that holds no key
NoKeys == [k \in {} |-> FALSE]

\* if key not in st.session_state: st.session_state[key] = value
SetDefault(s, key, value) ==
  IF key \in DOMAIN s THEN s ELSE (key :> value) @@ s

\* Session Setup: session_id and session_finished
SessionSetup(s, uuid) ==
  SetDefault(SetDefault(s, "session_id", uuid), "session_finished", FALSE)

\* Session State Setup: quantity, reset_qty, barcode, reset_barcode
StateSetup(s) ==
  SetDefault(SetDefault(SetDefault(SetDefault(s,
    "quantity", None), "reset_qty", FALSE),
    "barcode", <<>>), "reset_barcode", FALSE)

\* HandleResets that clears the quantity and leaves the barcode
HandleResetsKeepsBarcode(s) ==
  IF s["reset_qty"]
  THEN [s EXCEPT !["quantity"] = None, !["reset_qty"] = FALSE,
                 !["reset_barcode"] = FALSE]
  ELSE [s EXCEPT !["reset_barcode"] = FALSE]

\* Handle Resets Before Rendering Widgets
HandleResets(s) ==
  LET s1 == IF s["reset_qty"]
            THEN [s EXCEPT !["quantity"] = None, !["reset_qty"] = FALSE]
            ELSE s
  IN  IF s1["reset_barcode"]
      THEN [s1 EXCEPT !["barcode"] = <<>>, !["reset_barcode"] = FALSE]
      ELSE s1

\* the session state when the widgets are built
Prologue(s, uuid) == HandleResets(StateSetup(SessionSetup(s, uuid)))

\* XLSX_FILE with one path for every session: "counts.xlsx"
XLSX_FILE_OneForAll(s) == 1

\* XLSX_FILE = Path(f"counts_{session_id}.xlsx"): the session's file is
\* the one named by its session id
XLSX_FILE(s) == s["session_id"]

\* Load or Initialize User-Specific Counts
LoadCounts(file) == IF file.exists THEN read_excel(file.sheet) ELSE EmptyFrame

\* get_excel_download(df)
get_excel_download(frame) == to_excel(frame)

\* if submitted and entry and st.session_state["quantity"] is not None
SubmissionGuard(submitted, entry, quantity) ==
  submitted /\ entry # <<>> /\ quantity # None

\* ResetGuard without the confirmation
ResetGuardNoConfirm(pressed, reset_confirm) == pressed

\* st.button("Reset Count File") and reset_confirm
ResetGuard(pressed, reset_confirm) == pressed /\ reset_confirm

(***************************************************************************)
(* One run of the script                                                   *)
(***************************************************************************)
\* The widget event that started the run: kind is "none" (a page load or
\* an st.rerun()), "submit", "reset", "finish", "start_new" or "edit".
Event(kind, confirm, edit) == [kind |-> kind, confirm |-> confirm, edit |-> edit]

\* What a run leaves: the session state, the data frame df, the session's
\* file, the bytes given to the download button, the widgets on the page,
\* whether st.rerun() was called, and how the run ended.
Outcome(s, frame, file, data, widgets, again, result) ==
  [state |-> s, df |-> frame, file |-> file, download |-> data,
   page |-> widgets, rerun |-> again, result |-> result]

ActiveWidgets == {"download", "reset", "form", "finish"}

FinishedWidgets == {"download", "start_new"}

\* what a run that reached the Scanned Items tab leaves, tab being what
\* the tab made of frame and file
AfterTab2(s, frame, file, widgets, result, tab) ==
  Outcome(s, tab.df, tab.file, get_excel_download(frame),
          widgets \cup (IF tab.editor THEN {"editor"} ELSE {}),
          FALSE,
          IF tab.file # file \/ tab.df # frame THEN "edited" ELSE result)

\* the rest of a run that reached the Scanned Items tab
RunTab2(s, frame, file, ev, widgets, result) ==
  AfterTab2(s, frame, file, widgets, result,
            ScannedItemsTab(frame, file,
                            IF ev.kind = "edit" THEN ev.edit ELSE NoEdit))

\* the Finish Session button, then the Scanned Items tab
RunAfterForm(s, frame, file, ev, result) ==
  IF ev.kind = "finish"
  THEN Outcome([s EXCEPT !["session_finished"] = TRUE], frame, file,
               get_excel_download(frame), ActiveWidgets, TRUE, "finished")
  ELSE RunTab2(s, frame, file, ev, ActiveWidgets, result)

\* the rest of a handled submission, hit being what the entry resolved to
\* and add what adding it made of the frame: an uncaught TypeError ends
\* the run; an added entry is saved, the reset flags are set and the run
\* is restarted; an entry without a SKU leaves the run to go on
AfterResolve(s, frame, file, ev, hit, add) ==
  IF Truthy(hit.sku)
  THEN IF add.raised
       THEN Outcome(s, frame, file, get_excel_download(frame),
                    {"download", "reset", "form"}, FALSE, "type_error")
       ELSE Outcome([s EXCEPT !["reset_qty"] = TRUE,
                              !["reset_barcode"] = TRUE],
                    add.df, FileOf(to_excel(add.df)),
                    get_excel_download(frame),
                    {"download", "reset", "form"}, TRUE, "added")
  ELSE RunAfterForm(s, frame, file, ev,
                    IF hit.not_found THEN "not_found" ELSE "ignored")

\* the entry resolved to hit: it is added to the frame if it has a SKU
AfterHit(s, frame, file, ev, hit) ==
  AfterResolve(s, frame, file, ev, hit,
               IF Truthy(hit.sku)
               THEN AddToCount(frame, hit.sku, hit.name, hit.size,
                               s["quantity"].n)
               ELSE [raised |-> FALSE, df |-> frame])

\* Handle Submission
RunSubmission(s, frame, file, lk, ev) ==
  AfterHit(s, frame, file, ev, ResolveEntry(lk, NormalizeEntry(s["barcode"])))

\* the Scan tab while the session is not finished
RunActive(s, frame, file, lk, ev) ==
  IF ResetGuard(ev.kind = "reset", ev.confirm)
  THEN Outcome(s, EmptyFrame, FileOf(to_excel(EmptyFrame)),
               get_excel_download(frame), {"download", "reset"}, TRUE, "reset")
  ELSE IF SubmissionGuard(ev.kind = "submit", s["barcode"], s["quantity"])
  THEN RunSubmission(s, frame, file, lk, ev)
  ELSE RunAfterForm(s, frame, file, ev,
                    IF ev.kind = "submit" THEN "ignored" ELSE "rendered")

\* RunFinished with a Start New Count that keeps the session id
RunFinishedKeepsId(s, frame, file, ev) ==
  IF ev.kind = "start_new"
  THEN Outcome([k \in {"session_id"} |-> s[k]], frame, file,
               get_excel_download(frame), FinishedWidgets, TRUE, "start_new")
  ELSE RunTab2(s, frame, file, ev, FinishedWidgets, "rendered")

\* the Scan tab after the session was finished
RunFinished(s, frame, file, ev) ==
  IF ev.kind = "start_new"
  THEN Outcome(NoKeys, frame, file, get_excel_download(frame),
               FinishedWidgets, TRUE, "start_new")
  ELSE RunTab2(s, frame, file, ev, FinishedWidgets, "rendered")

\* the script from "Load or Initialize" on, s being the session state
\* when the widgets are built
Script(s, file, lk, ev) ==
  IF s["session_finished"]
  THEN RunFinished(s, LoadCounts(file), file, ev)
  ELSE RunActive(s, LoadCounts(file), file, lk, ev)

(***************************************************************************)
(* Inputs                                                                  *)
(***************************************************************************)
Widget == <<"W", "i", "d", "g", "e", "t">>

Gadget == <<"G", "a", "d", "g", "e", "t">>

TenOz == <<"1", "0", "o", "z">>

\* a workbook with a SIZE column; the second row has no size, the first
\* SKU has a leading blank, the second UPC was stored as "7.0"
PlainBook ==
  [has_size |-> TRUE,
   rows |-> << [UPC |-> Text(<<"0", "1">>), SKU |-> Text(<<" ", "S", "1">>),
                BRAND_NAME |-> Text(Widget), SIZE |-> Text(TenOz)],
               [UPC |-> Text(<<"7", ".", "0">>), SKU |-> Text(<<"S", "2">>),
                BRAND_NAME |-> Text(Gadget), SIZE |-> NaN] >>]

\* a workbook without a SIZE column; the first SKU holds ".0", the second
\* SKU is the first row's UPC
OddBook ==
  [has_size |-> FALSE,
   rows |-> << [UPC |-> Text(<<"7">>), SKU |-> Text(<<"S", ".", "0", "1">>),
                BRAND_NAME |-> Text(Widget), SIZE |-> NaN],
               [UPC |-> Text(<<"8">>), SKU |-> Text(<<"7">>),
                BRAND_NAME |-> Text(Gadget), SIZE |-> NaN] >>]

\* the workbooks "Barcode Lookup.xlsx" may be; in each the UPCs stay
\* distinct after load_lookup, and so do the SKUs
LookupBooks == {PlainBook, OddBook}

\* what is typed or scanned into the barcode input
Entries ==
  { <<>>, <<"0", "1">>, <<" ", "S", "1", " ">>, <<"7", ".", "0">>, <<"9">> }

\* what the Quantity input holds: nothing, or an integer from min_value up
Quantities == {None} \cup {Num(q) : q \in 0..MaxQty}

\* the SKUs typed into a row added in the grid
GridSKUs == { <<"S", "1">>, <<"7">> }

\* the browser sessions
Browsers == {"b1", "b2"}

(***************************************************************************)
(* State                                                                   *)
(***************************************************************************)
VARIABLES
  lookup_book,    \* the workbook "Barcode Lookup.xlsx"
  lookup_cache,   \* what st.cache_data holds of load_lookup()
  files,          \* the file counts_<session id>.xlsx of each session id
  next_uuid,      \* the session id uuid4 returns next
  browsers,       \* the browser sessions that are connected
  session_state,  \* st.session_state of each browser session
  df,             \* the data frame df at the end of its last run
  download,       \* the bytes given to the download button in that run
  page,           \* the widgets that run put on the page
  rerun,          \* whether a run of the script is due (page load, st.rerun)
  last            \* the last run: its browser session, its event, its end,
                  \* what the form's inputs held when the event came and
                  \* what they and the reset flags held when it was built

vars ==
  <<lookup_book, lookup_cache, files, next_uuid, browsers, session_state, df,
    download, page, rerun, last>>

\* what the inputs of the form hold in session state s0, the state an
\* event comes with (no form yet: nothing)
Typed(s0) ==
  IF "barcode" \in DOMAIN s0 /\ "quantity" \in DOMAIN s0
  THEN [barcode |-> s0["barcode"], quantity |-> s0["quantity"]]
  ELSE [barcode |-> <<>>, quantity |-> None]

\* the inputs and the reset flags in s, the session state when the form is
\* built
FormState(s) ==
  [k \in {"barcode", "quantity", "reset_qty", "reset_barcode"} |-> s[k]]

NotLoaded == [loaded |-> FALSE, df |-> [has_size |-> FALSE, rows |-> <<>>]]

\* lookup_df = load_lookup(), memoized by st.cache_data
lookup_df ==
  IF lookup_cache.loaded THEN lookup_cache.df ELSE load_lookup(lookup_book)

InitWith(connected, books) ==
  /\ lookup_book \in books
  /\ lookup_cache = NotLoaded
  /\ files = [id \in 1..MaxIds |-> NoFile]
  /\ next_uuid = 1
  /\ browsers = connected
  /\ session_state = [b \in Browsers |-> NoKeys]
  /\ df = [b \in Browsers |-> EmptyFrame]
  /\ download = [b \in Browsers |-> <<>>]
  /\ page = [b \in Browsers |-> {}]
  /\ rerun = [b \in Browsers |-> b \in connected]
  /\ last = [browser |-> "none", event |-> Event("none", FALSE, NoEdit),
             result |-> "none", typed |-> Typed(NoKeys),
             form |-> FormState(Prologue(NoKeys, 0))]

\* one browser opens the page
Init == InitWith({"b1"}, LookupBooks)

(***************************************************************************)
(* Actions: one run of the script each                                     *)
(***************************************************************************)
\* the run of browser session b from session state s0 (the widget values
\* of the event already in it) on event ev; a run that takes a new
\* session id needs one of the MaxIds ids uuid4 has to give
Run(b, s0, ev) ==
  /\ ("session_id" \notin DOMAIN s0) => (next_uuid <= MaxIds)
  /\ \E s \in {Prologue(s0, next_uuid)} :
     \E out \in {Script(s, files[XLSX_FILE(s)], lookup_df, ev)} :
     LET id == XLSX_FILE(s)
     IN  /\ session_state' = [session_state EXCEPT ![b] = out.state]
         /\ files' = [files EXCEPT ![id] = out.file]
         /\ df' = [df EXCEPT ![b] = out.df]
         /\ download' = [download EXCEPT ![b] = out.download]
         /\ page' = [page EXCEPT ![b] = out.page]
         /\ rerun' = [rerun EXCEPT ![b] = out.rerun]
         /\ last' = [browser |-> b, event |-> ev, result |-> out.result,
                     typed |-> Typed(s0), form |-> FormState(s)]
         /\ next_uuid' = IF "session_id" \in DOMAIN s0 THEN next_uuid
                                                        ELSE next_uuid + 1
         /\ lookup_cache' = [loaded |-> TRUE, df |-> lookup_df]
         /\ UNCHANGED <<lookup_book, browsers>>

\* a widget of the page can be used once the run that is due has been made
CanUse(b, widget) == b \in browsers /\ ~rerun[b] /\ widget \in page[b]

\* the page load, or the run st.rerun() asked for
Rerun(b) ==
  /\ b \in browsers
  /\ rerun[b]
  /\ Run(b, session_state[b], Event("none", FALSE, NoEdit))

\* Add to Count with entry and quantity in the form
SubmitScan(b, entry, quantity) ==
  /\ CanUse(b, "form")
  /\ Run(b, [session_state[b] EXCEPT !["barcode"] = entry,
                                      !["quantity"] = quantity],
         Event("submit", FALSE, NoEdit))

\* Reset Count File, the Confirm reset? box ticked or not
PressReset(b, reset_confirm) ==
  /\ CanUse(b, "reset")
  /\ Run(b, session_state[b], Event("reset", reset_confirm, NoEdit))

\* Finish Session
PressFinish(b) ==
  /\ CanUse(b, "finish")
  /\ Run(b, session_state[b], Event("finish", FALSE, NoEdit))

\* Start New Count; uuid4 has MaxIds ids to give
PressStartNew(b) ==
  /\ CanUse(b, "start_new")
  /\ next_uuid <= MaxIds
  /\ Run(b, session_state[b], Event("start_new", FALSE, NoEdit))

\* an edit in the grid of the Scanned Items tab
EditGrid(b, edit) ==
  /\ CanUse(b, "editor")
  /\ edit # NoEdit
  /\ Run(b, session_state[b], Event("edit", FALSE, edit))

\* the frame the grid of browser session b shows: the sorted ledger
GridOf(b) ==
  IF CanUse(b, "editor")
  THEN SortBySKU(LoadCounts(files[session_state[b]["session_id"]]))
  ELSE EmptyFrame

\* what the user of browser session b can do within one session id, the
\* form and the grid fed from the given inputs
Step(b, entries, quantities, skus) ==
  \/ Rerun(b)
  \/ \E entry \in entries, quantity \in quantities :
       SubmitScan(b, entry, quantity)
  \/ \E reset_confirm \in BOOLEAN : PressReset(b, reset_confirm)
  \/ PressFinish(b)
  \/ \E edit \in GridEdits(GridOf(b), skus) : EditGrid(b, edit)

\* one browser session under one session id, which it may finish
Next == \E b \in Browsers : Step(b, Entries, Quantities, GridSKUs)

Spec == Init /\ [][Next]_vars

(***************************************************************************)
(* Sessions that follow one another: Start New Count.  The files of the    *)
(* sessions left behind stay on disk, so the form and the grid are fed     *)
(* from fewer inputs here.                                                 *)
(***************************************************************************)
FewEntries == { <<"0", "1">>, <<"9">> }

FewQuantities == {None, Num(MaxQty)}

FewSKUs == { <<"S", "1">> }

InitSessions == InitWith({"b1"}, {PlainBook})

NextSessions ==
  \E b \in Browsers :
    \/ Step(b, FewEntries, FewQuantities, FewSKUs)
    \/ PressStartNew(b)

SpecSessions == InitSessions /\ [][NextSessions]_vars

(***************************************************************************)
(* Two browser sessions side by side, each under its own session id, with  *)
(* one entry and one quantity to type; in the grid rows are only removed.  *)
(***************************************************************************)
OneEntry == { <<"0", "1">> }

OneQuantity == {Num(MaxQty)}

InitPair == InitWith(Browsers, {PlainBook})

NextPair ==
  \E b \in Browsers :
    \/ Step(b, OneEntry, OneQuantity, {})
    \/ PressStartNew(b)

SpecPair == InitPair /\ [][NextPair]_vars

(***************************************************************************)
(* Properties                                                              *)
(***************************************************************************)
SessionId(b) == session_state[b]["session_id"]

\* the workbook sheet of the file of b's session
SheetOf(b) == files[SessionId(b)].sheet

\* the reset flags of b's session
ResetFlags(b) ==
  <<session_state[b]["reset_qty"], session_state[b]["reset_barcode"]>>

\* the rows of a frame or sheet that hold the SKU
RowsWith(rows, sku) == {i \in 1..Len(rows) : rows[i].SKU = sku}

\* In the step, b's form was submitted and the submission guard let the
\* typed entry and quantity through to the handler.
Handled(b) ==
  /\ last'.browser = b
  /\ last'.event.kind = "submit"
  /\ session_state'[b]["barcode"] # <<>>
  /\ session_state'[b]["quantity"] # None

\* what the lookup table gives for the entry typed in the step
HitOf(b) ==
  ResolveEntry(lookup_df, NormalizeEntry(session_state'[b]["barcode"]))

\* C1 (as claimed).  Accumulation across scans: when the session file
\* holds one row for a SKU with the integer q1 that an accepted scan
\* wrote, and a later run handles a submission with quantity q2 >= 1 whose
\* entry (barcode or SKU) resolves to that SKU, the ledger is left with
\* exactly one row for the SKU and its Counted Qty is the integer q1 + q2.
C1_Accumulation ==
  [][\A b \in Browsers :
       (/\ Handled(b)
        /\ session_state'[b]["quantity"].n >= 1
        /\ Truthy(HitOf(b).sku)
        /\ \E i \in 1..Len(SheetOf(b)) :
              /\ RowsWith(SheetOf(b), HitOf(b).sku) = {i}
              /\ SheetOf(b)[i].CountedQty.t = "int")
       => \E i \in 1..Len(df'[b]) :
            /\ RowsWith(df'[b], HitOf(b).sku) = {i}
            /\ \E k \in RowsWith(SheetOf(b), HitOf(b).sku) :
                  df'[b][i].CountedQty =
                    Num(SheetOf(b)[k].CountedQty.n
                          + session_state'[b]["quantity"].n)]_vars

\* C2 (as claimed).  A submission whose quantity is zero or blank is a
\* no-op: the ledger rows, the files and the reset flags are as before.
C2_ZeroOrBlankIsNoOp ==
  [][\A b \in Browsers :
       (/\ last'.browser = b
        /\ last'.event.kind = "submit"
        /\ session_state'[b]["quantity"] \in {None, Num(0)})
       => /\ df'[b] = df[b]
          /\ files' = files
          /\ ResetFlags(b)' = <<FALSE, FALSE>>]_vars

\* C3.  A handled submission whose normalized entry is in neither the
\* barcode index nor the SKU index ends in the not-found error and changes
\* nothing: the ledger rows and every file are as before the submission
\* and neither reset flag is set.
C3_NotFoundMutatesNothing ==
  [][\A b \in Browsers :
       (/\ Handled(b)
        /\ ~InUPCIndex(lookup_df, NormalizeEntry(session_state'[b]["barcode"]))
        /\ ~InSKUIndex(lookup_df, NormalizeEntry(session_state'[b]["barcode"])))
       => /\ last'.result = "not_found"
          /\ df'[b] = df[b]
          /\ files' = files
          /\ ResetFlags(b)' = <<FALSE, FALSE>>]_vars

\* C3 witness: a session with a row in its ledger got the not-found error.
C3_Witness ==
  /\ last.result = "not_found"
  /\ df[last.browser] # EmptyFrame
  /\ files[SessionId(last.browser)].exists

\* C4 (as claimed).  For every row of the loaded lookup table, the entry
\* that is its barcode and the entry that is its SKU, each normalized as
\* the scan handler does, resolve to the same SKU, name and size.
C4_BarcodeAndSKUAgree ==
  lookup_cache.loaded =>
    \A i \in 1..Len(lookup_cache.df.rows) :
      LET row == lookup_cache.df.rows[i]
          byUPC == ResolveEntry(lookup_cache.df, NormalizeEntry(row.UPC))
          bySKU == ResolveEntry(lookup_cache.df, NormalizeEntry(row.SKU))
      IN  /\ byUPC.sku = bySKU.sku
          /\ byUPC.name = bySKU.name
          /\ byUPC.size = bySKU.size

\* C5 (as claimed).  Round trip: the ledger an accepted scan wrote to the
\* session file loads as the same rows, Counted Qty being the integer
\* that was written.
C5_RoundTrip ==
  \A b \in Browsers :
    (last.browser = b /\ last.result = "added")
      => LoadCounts(files[SessionId(b)]) = df[b]

\* C6.  Reset Count File pressed with the confirmation ticked leaves an
\* empty ledger and a session file that holds the empty table, whatever
\* they held; pressed without it, the ledger and the files are as before.
C6_Reset ==
  [][\A b \in Browsers :
       (last'.browser = b /\ last'.event.kind = "reset")
       => IF last'.event.confirm
          THEN /\ df'[b] = EmptyFrame
               /\ files'[SessionId(b)] = FileOf(<<>>)
               /\ LoadCounts(files'[SessionId(b)]) = EmptyFrame
               /\ \A id \in DOMAIN files :
                     id # SessionId(b) => files'[id] = files[id]
          ELSE /\ df'[b] = df[b]
               /\ files' = files]_vars

\* C6 witness: a confirmed reset of a ledger that had rows (the download
\* button of that run was still given them).
C6_Witness ==
  /\ last.event.kind = "reset"
  /\ last.event.confirm
  /\ download[last.browser] # <<>>
  /\ df[last.browser] = EmptyFrame
  /\ files[SessionId(last.browser)].exists

\* C7 (as claimed).  At the end of every run that changed the ledger (an
\* accepted scan, a confirmed reset, a grid edit) the session file holds
\* the ledger, so that loading it gives the ledger the run left.
C7_PersistedAfterMutation ==
  \A b \in Browsers :
    (last.browser = b /\ last.result \in {"added", "reset", "edited"})
      => /\ files[SessionId(b)].exists
         /\ files[SessionId(b)].sheet = to_excel(df[b])
         /\ LoadCounts(files[SessionId(b)]) = df[b]

HasKeys(b) == DOMAIN session_state[b] # {}

Active(b) ==
  /\ "session_finished" \in DOMAIN session_state[b]
  /\ ~session_state[b]["session_finished"]

Finished(b) ==
  /\ "session_finished" \in DOMAIN session_state[b]
  /\ session_state[b]["session_finished"]

\* the session ids uuid4 has given so far
GivenIds == 1..(next_uuid - 1)

\* C8.  A session is Active or Finished.  Active becomes Finished only by
\* Finish Session; an accepted scan leaves it Active; Finished is left only
\* by Start New Count, which leaves no session-state key, and the run that
\* follows is Active, under a session id not given before, with an empty
\* ledger and no file yet.
C8_StateMachine ==
  /\ [](\A b \in Browsers : HasKeys(b) => SessionId(b) \in GivenIds)
  /\ [][\A b \in Browsers :
          /\ (Active(b) /\ Finished(b)')
               => (last'.browser = b /\ last'.event.kind = "finish")
          /\ (last'.browser = b /\ last'.result = "added") => Active(b)'
          /\ (Finished(b) /\ ~Finished(b)')
               => /\ last'.browser = b
                  /\ last'.event.kind = "start_new"
                  /\ ~HasKeys(b)'
          /\ (~HasKeys(b) /\ last.event.kind = "start_new"
                 /\ last.browser = b /\ last'.browser = b)
               => /\ Active(b)'
                  /\ SessionId(b)' \notin GivenIds
                  /\ df'[b] = EmptyFrame
                  /\ ~files'[SessionId(b)'].exists]_vars

\* C8 witness: a new session is Active with an empty ledger while the file
\* of the session before it holds rows.
C8_Witness ==
  \E b \in Browsers :
    /\ Active(b)
    /\ SessionId(b) > 1
    /\ df[b] = EmptyFrame
    /\ \E id \in GivenIds : id # SessionId(b) /\ files[id].sheet # <<>>

\* C9 (as claimed).  In every reachable state no two rows of a ledger
\* have the same SKU.
C9_UniqueSKU ==
  \A b \in Browsers :
    \A i, j \in 1..Len(df[b]) : i # j => df[b][i].SKU # df[b][j].SKU

\* the lookup rows the typed entry of the step selects: by barcode, or by
\* SKU when no barcode is the entry
Selected(b) ==
  LET entry == NormalizeEntry(session_state'[b]["barcode"])
      rows == lookup_df.rows
  IN  IF \E k \in 1..Len(rows) : rows[k].UPC = entry
      THEN {k \in 1..Len(rows) : rows[k].UPC = entry}
      ELSE {k \in 1..Len(rows) : rows[k].SKU = entry}

LookupSKUs == {Text(lookup_df.rows[k].SKU) : k \in 1..Len(lookup_df.rows)}

\* C11.  Every row an accepted scan puts behind the rows the ledger had
\* holds a SKU that is the SKU of a row of the loaded lookup table, the
\* entry being matched by the barcode index or by the SKU index.
C11_CreatedRowHasLookupSKU ==
  [][\A b \in Browsers :
       (last'.browser = b /\ last'.result = "added")
       => \A i \in (Len(LoadCounts(files[SessionId(b)])) + 1)..Len(df'[b]) :
            df'[b][i].SKU \in LookupSKUs]_vars

\* C11 witness: an accepted scan made a second row for an entry that is a
\* barcode, the row holding the SKU of the lookup row and not the entry.
C11_Witness ==
  /\ last.result = "added"
  /\ Len(df[last.browser]) >= 2
  /\ InUPCIndex(lookup_df,
                NormalizeEntry(session_state[last.browser]["barcode"]))
  /\ df[last.browser][Len(df[last.browser])].CountedQty.t = "int"
  /\ df[last.browser][Len(df[last.browser])].SKU
       # Text(NormalizeEntry(session_state[last.browser]["barcode"]))
  /\ df[last.browser][Len(df[last.browser])].SKU \in LookupSKUs

\* the session id the next run of browser session b works under
RunId(b) == IF HasKeys(b) THEN SessionId(b) ELSE next_uuid

\* C12.  Session isolation: a run of one browser session (a scan, a
\* reset, a grid edit, Finish Session, Start New Count) leaves the ledger,
\* the session state and the session file of every other session that has
\* another session id as they were, and no file but the one of its own
\* session id is changed; no run changes the lookup workbook or the lookup
\* table load_lookup gave.
C12_SessionIsolation ==
  [][/\ lookup_book' = lookup_book
     /\ lookup_df' = lookup_df
     /\ \A b \in Browsers :
          last'.browser = b
          => /\ \A c \in Browsers \ {b} :
                  (HasKeys(c) /\ SessionId(c) # RunId(b))
                  => /\ df'[c] = df[c]
                     /\ session_state'[c] = session_state[c]
                     /\ files'[SessionId(c)] = files[SessionId(c)]
             /\ \A id \in DOMAIN files :
                  id # RunId(b) => files'[id] = files[id]]_vars

\* C12 witness: one session emptied or edited its ledger, or took a new
\* session id, while the file of the other session, under another id,
\* holds rows.
C12_Witness ==
  \E b, c \in Browsers :
    /\ b # c
    /\ HasKeys(b) /\ HasKeys(c)
    /\ SessionId(b) # SessionId(c)
    /\ last.browser = b
    /\ last.result \in {"reset", "edited"} \/ SessionId(b) > 2
    /\ files[SessionId(b)].sheet = <<>>
    /\ files[SessionId(c)].sheet # <<>>
    /\ df[c] # EmptyFrame

\* C13 (as claimed).  Download currency: at the end of every run that put
\* a download button on the page and was not restarted by st.rerun(), the
\* bytes given to the button hold the rows of the ledger as the run left
\* it, which are the rows of the session file, a run that applied a grid
\* edit included.
C13_DownloadCurrent ==
  \A b \in Browsers :
    (b \in browsers /\ ~rerun[b] /\ "download" \in page[b])
    => /\ read_excel(download[b]) = read_excel(get_excel_download(df[b]))
       /\ read_excel(download[b]) = LoadCounts(files[SessionId(b)])

\* the pairs <<A, B>> of different rows of the loaded lookup table where
\* the entry is the barcode of row A and the SKU of row B
BarcodeAndOtherSKU(entry) ==
  {p \in (1..Len(lookup_df.rows)) \X (1..Len(lookup_df.rows)) :
     /\ p[1] # p[2]
     /\ lookup_df.rows[p[1]].UPC = entry
     /\ lookup_df.rows[p[2]].SKU = entry}

\* C14.  Resolution order: a handled submission whose normalized entry is
\* the barcode of lookup row A and the SKU of another row B resolves to
\* row A: SKU, name and size are A's; if the scan is accepted the ledger
\* holds a row with A's SKU and the rows with B's SKU are as they were.
C14_BarcodeFirst ==
  [][\A b \in Browsers :
       Handled(b)
       => \A p \in BarcodeAndOtherSKU(
                     NormalizeEntry(session_state'[b]["barcode"])) :
            LET A == lookup_df.rows[p[1]]
                B == lookup_df.rows[p[2]]
                frame == LoadCounts(files[SessionId(b)])
            IN  /\ HitOf(b) = [sku |-> Text(A.SKU), name |-> A.BRAND_NAME,
                               size |-> SizeOf(lookup_df, A),
                               not_found |-> FALSE]
                /\ last'.result \in {"added", "type_error"}
                /\ last'.result = "added"
                   => /\ RowsWith(df'[b], Text(A.SKU)) # {}
                      /\ \A i \in RowsWith(df'[b], Text(A.SKU)) :
                            i <= Len(frame) \/ df'[b][i].Name = A.BRAND_NAME
                      /\ RowsWith(df'[b], Text(B.SKU))
                           = RowsWith(frame, Text(B.SKU))
                      /\ \A i \in RowsWith(frame, Text(B.SKU)) :
                            df'[b][i] = frame[i]]_vars

\* C14 witness: an accepted scan of an entry that is the barcode of one
\* lookup row and the SKU of another, the ledger holding a row with that
\* entry as its SKU already, made a row with the SKU of the barcode's row.
C14_Witness ==
  /\ last.result = "added"
  /\ BarcodeAndOtherSKU(
       NormalizeEntry(session_state[last.browser]["barcode"])) # {}
  /\ Len(df[last.browser]) >= 2
  /\ df[last.browser][1].SKU
       = Text(NormalizeEntry(session_state[last.browser]["barcode"]))
  /\ df[last.browser][Len(df[last.browser])].CountedQty.t = "int"

\* In the step, b's form was submitted and the submission is one the
\* script rejects: the entry is blank, the quantity is blank, or the
\* normalized entry is in neither index.
Rejected(b) ==
  /\ last'.browser = b
  /\ last'.event.kind = "submit"
  /\ \/ last'.typed.barcode = <<>>
     \/ last'.typed.quantity = None
     \/ /\ ~InUPCIndex(lookup_df, NormalizeEntry(last'.typed.barcode))
        /\ ~InSKUIndex(lookup_df, NormalizeEntry(last'.typed.barcode))

C16_FinishedFreezes ==
  [][\A b \in Browsers :
       (/\ last'.browser = b
        /\ \/ last'.event.kind = "finish"
           \/ Finished(b) /\ last'.event.kind # "start_new")
       => /\ files' = files
          /\ df'[b] = LoadCounts(files[SessionId(b)])]_vars

=============================================================================
